---- MODULE Spec2Model ----
(***************************************************************************)
(* time-cli (src/src/main.rs): a command-line timestamp interpreter.       *)
(*                                                                         *)
(* An input string is a sequence of one-character strings.  A signed       *)
(* 64-bit integer is kept as a sign and its decimal digits (Dec), because  *)
(* the bounds of the program (-2208988800, 16725225600) and the epoch      *)
(* milliseconds it handles do not fit the model checker's integers; an     *)
(* instant is kept as whole days since the epoch, the second of that day   *)
(* and the nanosecond of that second, as chrono's NaiveDateTime does.      *)
(***************************************************************************)
EXTENDS Integers, Sequences, FiniteSets, TLC

VARIABLES pc, arg, now, idx, parsed, utc_ts, stdout, stderr, exit

vars == <<pc, arg, now, idx, parsed, utc_ts, stdout, stderr, exit>>

(***************************************************************************)
(* Characters and decimal digits                                           *)
(***************************************************************************)
DigitChars == <<"0", "1", "2", "3", "4", "5", "6", "7", "8", "9">>

IsDigit(c) == \E i \in 1..10 : DigitChars[i] = c

DigitVal(c) == (CHOOSE i \in 1..10 : DigitChars[i] = c) - 1

DigitChar(d) == DigitChars[d + 1]

Max(a, b) == IF a >= b THEN a ELSE b

Min(a, b) == IF a <= b THEN a ELSE b

Drop(s, n) == SubSeq(s, n + 1, Len(s))

Take(s, n) == SubSeq(s, 1, n)

RECURSIVE StripZeros(_)
StripZeros(ds) ==
    IF ds # <<>> /\ ds[1] = 0 THEN StripZeros(Tail(ds)) ELSE ds

\* The digit values of a sequence of digit characters.
DigitsOf(cs) == [i \in 1..Len(cs) |-> DigitVal(cs[i])]

\* The value of at most nine digits.
RECURSIVE NatOf(_)
NatOf(ds) ==
    IF ds = <<>> THEN 0 ELSE NatOf(Take(ds, Len(ds) - 1)) * 10 + ds[Len(ds)]

RECURSIVE DigitsOfNat(_)
DigitsOfNat(n) ==
    IF n = 0 THEN <<>> ELSE Append(DigitsOfNat(n \div 10), n % 10)

(***************************************************************************)
(* i64 values as sign and magnitude                                        *)
(***************************************************************************)
Dec(neg, mag) ==
    LET m == StripZeros(mag) IN [neg |-> neg /\ m # <<>>, mag |-> m]

MagLess(x, y) ==
    \/ Len(x) < Len(y)
    \/ /\ Len(x) = Len(y)
       /\ \E i \in 1..Len(x) :
            /\ x[i] < y[i]
            /\ \A j \in 1..(i - 1) : x[j] = y[j]

DecLess(a, b) ==
    IF a.neg /\ ~b.neg THEN TRUE
    ELSE IF ~a.neg /\ b.neg THEN FALSE
    ELSE IF a.neg THEN MagLess(b.mag, a.mag)
    ELSE MagLess(a.mag, b.mag)

\* 1900
LOWER_BOUND == Dec(TRUE, <<2, 2, 0, 8, 9, 8, 8, 8, 0, 0>>)

\* 2500
UPPER_BOUND == Dec(FALSE, <<1, 6, 7, 2, 5, 2, 2, 5, 6, 0, 0>>)

I64_MAX == Dec(FALSE, <<9, 2, 2, 3, 3, 7, 2, 0, 3, 6, 8, 5, 4, 7, 7, 5, 8, 0, 7>>)

I64_MIN == Dec(TRUE, <<9, 2, 2, 3, 3, 7, 2, 0, 3, 6, 8, 5, 4, 7, 7, 5, 8, 0, 8>>)

FitsI64(d) == ~DecLess(d, I64_MIN) /\ ~DecLess(I64_MAX, d)

\* Rust's ts / 1000 on i64: the quotient truncated toward zero.
DecDiv1000(d) == Dec(d.neg, Take(d.mag, Max(Len(d.mag) - 3, 0)))

\* Rust's ts % 1000 on i64: the remainder, with the sign of ts.
DecRem1000(d) ==
    LET r == NatOf(Drop(d.mag, Max(Len(d.mag) - 3, 0)))
    IN  IF d.neg THEN 0 - r ELSE r

\* ts * 1000
DecMul1000(d) == Dec(d.neg, d.mag \o <<0, 0, 0>>)

SECS_PER_DAY == 86400

\* The magnitude ds as <<whole units, remainder>> for a unit of per.
RECURSIVE MagDivMod(_, _)
MagDivMod(ds, per) ==
    IF ds = <<>> THEN <<0, 0>>
    ELSE LET p == MagDivMod(Take(ds, Len(ds) - 1), per)
             r == p[2] * 10 + ds[Len(ds)]
         IN  <<p[1] * 10 + r \div per, r % per>>

\* div_euclid and rem_euclid of d by per, for |d| below 10^16.
DecDivMod(d, per) ==
    LET p == MagDivMod(d.mag, per)
    IN  IF ~d.neg THEN p
        ELSE IF p[2] = 0 THEN <<0 - p[1], 0>>
        ELSE <<0 - p[1] - 1, per - p[2]>>

(***************************************************************************)
(* Instants (chrono's NaiveDateTime / DateTime<Utc>)                       *)
(***************************************************************************)
Inst(day, sod, nano) == [day |-> day, sod |-> sod, nano |-> nano]

NoInst == Inst(0, 0, 0)

ResOk(t) == [tag |-> "Ok", t |-> t]

ResErr == [tag |-> "Err", t |-> NoInst]

\* A panic: the call does not return and the process aborts.
ResPanic == [tag |-> "Panic", t |-> NoInst]

\* Ordering of DateTime<Utc> values.
InstLess(a, b) ==
    \/ a.day < b.day
    \/ a.day = b.day /\ a.sod < b.sod
    \/ a.day = b.day /\ a.sod = b.sod /\ a.nano < b.nano

\* DateTime::timestamp(): whole seconds since the epoch, as <<days, second of day>>.
timestamp(t) == <<t.day, t.sod>>

\* DateTime::timestamp_millis(), as <<days, millisecond of day>>.
timestamp_millis(t) == <<t.day, t.sod * 1000 + t.nano \div 1000000>>

PairLess(a, b) == a[1] < b[1] \/ (a[1] = b[1] /\ a[2] < b[2])

\* The first and the last day, counted from the epoch, of chrono's NaiveDate.
MIN_DAYS == -96465659

MAX_DAYS == 95026601

MIN_YEAR == -262144

MAX_YEAR == 262143

\* (r as u32) < 2_000_000_000 for an i64 remainder r in -999..999: a negative r
\* casts to 2^32 + r, which is above the limit.
NsecsValid(r) == r >= 0 /\ r < 2000000000

\* NaiveDateTime::from_timestamp(secs, nsecs as u32), wrapped in DateTime<Utc>:
\* panics on an out-of-range number of seconds or an invalid nanosecond.
from_timestamp(secs, nsecs) ==
    IF Len(secs.mag) > 13 \/ ~NsecsValid(nsecs) THEN ResPanic
    ELSE LET p == DecDivMod(secs, SECS_PER_DAY)
         IN  IF p[1] < MIN_DAYS \/ p[1] > MAX_DAYS THEN ResPanic
             ELSE ResOk(Inst(p[1], p[2], nsecs))

(***************************************************************************)
(* The proleptic Gregorian calendar (chrono's NaiveDate)                   *)
(***************************************************************************)
IsLeap(y) == y % 4 = 0 /\ (y % 100 # 0 \/ y % 400 = 0)

DaysInMonth(y, m) ==
    IF m = 2 THEN (IF IsLeap(y) THEN 29 ELSE 28)
    ELSE IF m \in {4, 6, 9, 11} THEN 30 ELSE 31

\* Days from 1970-01-01 to y-m-d.
DaysFromCivil(y, m, d) ==
    LET yy  == IF m <= 2 THEN y - 1 ELSE y
        era == yy \div 400
        yoe == yy - era * 400
        mp  == IF m > 2 THEN m - 3 ELSE m + 9
        doy == (153 * mp + 2) \div 5 + d - 1
        doe == yoe * 365 + yoe \div 4 - yoe \div 100 + doy
    IN  era * 146097 + doe - 719468

\* NaiveDate::from_ymd_opt
ValidYmd(y, m, d) ==
    /\ y >= MIN_YEAR /\ y <= MAX_YEAR
    /\ m >= 1 /\ m <= 12
    /\ d >= 1 /\ d <= DaysInMonth(y, m)

(***************************************************************************)
(* chrono::format: Parsed, scan::number, parse                             *)
(***************************************************************************)
None == <<>>

Some(v) == <<v>>

\* format::Parsed::new()
NewParsed ==
    [year |-> None, month |-> None, day |-> None, hour_div_12 |-> None,
     hour_mod_12 |-> None, minute |-> None, second |-> None]

\* A scan that failed.
NoScan == [ok |-> FALSE, v |-> 0, rest |-> <<>>]

\* The number of leading digit characters of s, at most max.
RECURSIVE DigitRun(_, _)
DigitRun(s, max) ==
    IF max = 0 \/ s = <<>> \/ ~IsDigit(s[1]) THEN 0
    ELSE 1 + DigitRun(Tail(s), max - 1)

\* str::trim_left, for the whitespace of the modelled alphabet.
RECURSIVE TrimLeft(_)
TrimLeft(s) == IF s # <<>> /\ s[1] = " " THEN TrimLeft(Tail(s)) ELSE s

\* The items of StrftimeItems::new(fmt): "%Y", "%m", "%d", "%H", "%M", "%S" are
\* numeric items, any other entry is a literal character.
IsNumeric(item) == item \in {"%Y", "%m", "%d", "%H", "%M", "%S"}

\* Parsed::set_year .. set_second on a parsed value v.
SetField(p, item, v) ==
    CASE item = "%Y" -> [p EXCEPT !.year = Some(v)]
      [] item = "%m" -> [p EXCEPT !.month = Some(v)]
      [] item = "%d" -> [p EXCEPT !.day = Some(v)]
      [] item = "%H" -> [p EXCEPT !.hour_div_12 = Some(v \div 12),
                                  !.hour_mod_12 = Some(v % 12)]
      [] item = "%M" -> [p EXCEPT !.minute = Some(v)]
      [] item = "%S" -> [p EXCEPT !.second = Some(v)]

\* One numeric item at the head of s: leading whitespace is skipped; a year may
\* carry a sign, and then takes every digit that follows, otherwise a year
\* takes 1 to 4 digits and every other field 1 to 2.  A year of more than nine
\* digits fails here: it overflows set_year's i32 or, at ten digits, is
\* refused by NaiveDate afterwards, and parse_dt_str fails either way.
ScanNumeric(s0, item) ==
    LET s      == TrimLeft(s0)
        signed == item = "%Y" /\ s # <<>> /\ s[1] \in {"-", "+"}
        body   == IF signed THEN Tail(s) ELSE s
        width  == IF signed THEN Len(body) ELSE IF item = "%Y" THEN 4 ELSE 2
        n      == DigitRun(body, width)
        ds     == StripZeros(DigitsOf(Take(body, n)))
        v      == NatOf(ds)
    IN  IF n < 1 \/ Len(ds) > 9 THEN NoScan
        ELSE [ok |-> TRUE,
              v |-> IF signed /\ s[1] = "-" THEN 0 - v ELSE v,
              rest |-> Drop(body, n)]

\* The state of a parse: whether it still succeeds, the input left, the
\* fields set so far, and (RFC formats) the fraction of the second, the
\* offset from UTC and the weekday.
Cursor(s) ==
    [ok |-> TRUE, rest |-> s, p |-> NewParsed, nano |-> 0, off |-> None, wd |-> None]

Fail(c) == [c EXCEPT !.ok = FALSE, !.rest = <<>>]

\* The scan result r taken as the value of the field of item.
CSet(c, item, r) ==
    IF c.ok /\ r.ok THEN [c EXCEPT !.p = SetField(c.p, item, r.v), !.rest = r.rest]
    ELSE Fail(c)

\* A literal character.
CChar(c, ch) ==
    IF c.ok /\ c.rest # <<>> /\ c.rest[1] = ch THEN [c EXCEPT !.rest = Tail(c.rest)]
    ELSE Fail(c)

\* One item: a numeric field or a literal.
CItem(c, item) ==
    IF IsNumeric(item) THEN CSet(c, item, ScanNumeric(c.rest, item))
    ELSE CChar(c, item)

\* The items in turn, each consuming the head of the input.
RECURSIVE ParseItems(_, _)
ParseItems(c, items) ==
    IF items = <<>> THEN c ELSE ParseItems(CItem(c, items[1]), Tail(items))

\* format::parse(&mut p, s, items): every item in turn, then no input left.
ItemsDone(c) == [ok |-> c.ok /\ c.rest = <<>>, p |-> c.p]

FormatParse(s, items) == ItemsDone(ParseItems(Cursor(s), items))

\* Parsed::to_naive_date, for a Parsed holding year, month and day.
to_naive_date(p) ==
    IF p.year = None \/ p.month = None \/ p.day = None
       \/ ~ValidYmd(p.year[1], p.month[1], p.day[1])
    THEN [ok |-> FALSE, days |-> 0]
    ELSE [ok |-> TRUE, days |-> DaysFromCivil(p.year[1], p.month[1], p.day[1])]

\* Parsed::to_naive_time: hour and minute are required, the second defaults to
\* 0, and a second of 60 is the leap second 59 + 1_000_000_000 ns.
to_naive_time(p) ==
    LET sec == IF p.second = None THEN 0 ELSE p.second[1]
    IN  IF \/ p.hour_div_12 = None \/ p.hour_mod_12 = None \/ p.minute = None
           \/ p.hour_div_12[1] > 1 \/ p.minute[1] > 59 \/ sec > 60
        THEN [ok |-> FALSE, sod |-> 0, nano |-> 0]
        ELSE [ok |-> TRUE,
              sod |-> (p.hour_div_12[1] * 12 + p.hour_mod_12[1]) * 3600
                      + p.minute[1] * 60 + Min(sec, 59),
              nano |-> IF sec = 60 THEN 1000000000 ELSE 0]

(***************************************************************************)
(* parse_dt_str (main.rs 45-73)                                            *)
(***************************************************************************)
\* LOWER_BOUND and UPPER_BOUND as <<days, second of day>>.
LowerTs == DecDivMod(LOWER_BOUND, SECS_PER_DAY)

UpperTs == DecDivMod(UPPER_BOUND, SECS_PER_DAY)

\* dt.timestamp() > LOWER_BOUND && dt.timestamp() < UPPER_BOUND
\* Variant: the bounds themselves accepted (>= and <= for > and <).
InBounds_Inclusive(dt) ==
    ~PairLess(timestamp(dt), LowerTs) /\ ~PairLess(UpperTs, timestamp(dt))

InBounds(dt) ==
    PairLess(LowerTs, timestamp(dt)) /\ PairLess(timestamp(dt), UpperTs)

\* Variant: the day-of-month default of lines 55-57 left out.
FillDefaults_NoDay(p0) ==
    LET p1 == IF p0.hour_mod_12 = None THEN SetField(p0, "%H", 0) ELSE p0
        p2 == IF p1.minute = None THEN SetField(p1, "%M", 0) ELSE p1
    IN  IF p2.month = None THEN SetField(p2, "%m", 1) ELSE p2

\* The defaults of lines 49-60.
FillDefaults(p0) ==
    LET p1 == IF p0.hour_mod_12 = None THEN SetField(p0, "%H", 0) ELSE p0
        p2 == IF p1.minute = None THEN SetField(p1, "%M", 0) ELSE p1
        p3 == IF p2.day = None THEN SetField(p2, "%d", 1) ELSE p2
    IN  IF p3.month = None THEN SetField(p3, "%m", 1) ELSE p3

parse_dt_str(fmt, s) ==
    LET r == FormatParse(s, fmt)
        p == FillDefaults(r.p)
        d == to_naive_date(p)
        t == to_naive_time(p)
        dt == Inst(d.days, t.sod, t.nano)
    IN  IF ~r.ok \/ ~d.ok \/ ~t.ok THEN ResErr
        ELSE IF InBounds(dt) THEN ResOk(dt)
        ELSE ResErr

(***************************************************************************)
(* parse_i64 (main.rs 14-26)                                               *)
(***************************************************************************)
AllDigits(s) == \A i \in 1..Len(s) : IsDigit(s[i])

\* i64::from_str: an optional sign, then one or more digits and nothing else;
\* a value outside i64 is an error.
FromStrI64(s) ==
    LET signed == s # <<>> /\ s[1] \in {"-", "+"}
        body   == IF signed THEN Tail(s) ELSE s
        v      == Dec(signed /\ s[1] = "-", DigitsOf(body))
    IN  IF body = <<>> \/ ~AllDigits(body) THEN [ok |-> FALSE, v |-> Dec(FALSE, <<>>)]
        ELSE IF ~FitsI64(v) THEN [ok |-> FALSE, v |-> Dec(FALSE, <<>>)]
        ELSE [ok |-> TRUE, v |-> v]

\* ts < UPPER_BOUND && ts > LOWER_BOUND
SecondsRange(ts) == DecLess(ts, UPPER_BOUND) /\ DecLess(LOWER_BOUND, ts)

\* Variant: every integer taken as milliseconds.
parse_i64_AlwaysMillis(s) ==
    LET r == FromStrI64(s)
    IN  IF ~r.ok THEN ResErr
        ELSE from_timestamp(DecDiv1000(r.v), DecRem1000(r.v))

parse_i64(s) ==
    LET r == FromStrI64(s)
    IN  IF ~r.ok THEN ResErr
        ELSE IF SecondsRange(r.v) THEN from_timestamp(r.v, 0)
        ELSE from_timestamp(DecDiv1000(r.v), DecRem1000(r.v))

(***************************************************************************)
(* parse_f64 (main.rs 28-43)                                               *)
(*                                                                         *)
(* An f64 is kept as the decimal it was read from: sign, integer digits,   *)
(* fraction digits.  The inputs of the model have at most 15 integer       *)
(* digits and a few fraction digits, or are so large that the              *)
(* result is the saturated i64 whatever the last bits are; on those the    *)
(* decimal arithmetic below and the binary arithmetic of the code agree.   *)
(* Exponents, "inf" and "NaN" are outside the modelled alphabet.           *)
(***************************************************************************)
IndexOfDot(s) ==
    IF \E i \in 1..Len(s) : s[i] = "."
    THEN CHOOSE i \in 1..Len(s) : s[i] = "." /\ \A j \in 1..(i - 1) : s[j] # "."
    ELSE Len(s) + 1

\* f64::from_str: an optional sign, digits with at most one point among them,
\* and at least one digit.
FromStrF64(s) ==
    LET signed == s # <<>> /\ s[1] \in {"-", "+"}
        body   == IF signed THEN Tail(s) ELSE s
        dot    == IndexOfDot(body)
        int    == Take(body, dot - 1)
        frac   == Drop(body, Min(dot, Len(body)))
    IN  IF AllDigits(int) /\ AllDigits(frac) /\ Len(int) + Len(frac) >= 1
        THEN [ok |-> TRUE, neg |-> signed /\ s[1] = "-",
              int |-> StripZeros(DigitsOf(int)), frac |-> DigitsOf(frac)]
        ELSE [ok |-> FALSE, neg |-> FALSE, int |-> <<>>, frac |-> <<>>]

\* The magnitude ds plus one.
RECURSIVE MagInc(_)
MagInc(ds) ==
    IF ds = <<>> THEN <<1>>
    ELSE IF ds[Len(ds)] < 9 THEN [ds EXCEPT ![Len(ds)] = ds[Len(ds)] + 1]
    ELSE Append(MagInc(Take(ds, Len(ds) - 1)), 0)

\* ts < UPPER_BOUND as f64 && ts > LOWER_BOUND as f64: both bounds are whole, so
\* the comparison is decided by the integer part.
SecondsRangeF(f) == SecondsRange(Dec(f.neg, f.int))

\* f64::round: to the nearest integer, halves away from zero.
RoundAt(f, k) ==
    LET kept == f.int \o Take(f.frac \o [i \in 1..k |-> 0], k)
        up   == Len(f.frac) > k /\ f.frac[k + 1] >= 5
    IN  Dec(f.neg, IF up THEN MagInc(StripZeros(kept)) ELSE kept)

\* `as i64` on an f64: saturating.
AsI64(d) ==
    IF DecLess(I64_MAX, d) THEN I64_MAX
    ELSE IF DecLess(d, I64_MIN) THEN I64_MIN
    ELSE d

parse_f64(s) ==
    LET f  == FromStrF64(s)
        ts == IF SecondsRangeF(f) THEN AsI64(RoundAt(f, 3)) ELSE AsI64(RoundAt(f, 0))
    IN  IF ~f.ok THEN ResErr
        ELSE from_timestamp(DecDiv1000(ts), DecRem1000(ts))

(***************************************************************************)
(* DateTime::parse_from_rfc3339 and parse_from_rfc2822 (main.rs 83-92),    *)
(* as chrono 0.4 builds them from the same numeric items.                  *)
(***************************************************************************)
\* The instant delta seconds after t.
ShiftSecs(t, delta) ==
    LET total == t.sod + delta
    IN  Inst(t.day + total \div SECS_PER_DAY, total % SECS_PER_DAY, t.nano)

\* scan::number(s, n, n): exactly n digits (n <= 9).
ScanFixed(s, n) ==
    IF DigitRun(s, n) < n THEN NoScan
    ELSE [ok |-> TRUE, v |-> NatOf(DigitsOf(Take(s, n))), rest |-> Drop(s, n)]

\* scan::timezone_offset: sign, two digits of hours, the colon when one is
\* required, two digits of minutes below 60; the offset in seconds.
ScanOffset(s, colon) ==
    LET h  == ScanFixed(Tail(s), 2)
        s2 == IF colon /\ h.rest # <<>> /\ h.rest[1] = ":" THEN Tail(h.rest) ELSE h.rest
        m  == ScanFixed(s2, 2)
        v  == h.v * 3600 + m.v * 60
    IN  IF s = <<>> \/ s[1] \notin {"+", "-"} THEN NoScan
        ELSE IF ~h.ok \/ (colon /\ (h.rest = <<>> \/ h.rest[1] # ":")) THEN NoScan
        ELSE IF ~m.ok \/ m.v > 59 THEN NoScan
        ELSE [ok |-> TRUE, v |-> IF s[1] = "-" THEN 0 - v ELSE v, rest |-> m.rest]

\* Fixed::Nanosecond: an optional point and 1 to 9 digits scaled to
\* nanoseconds, further digits skipped.
ScanNanosecond(s) ==
    IF s = <<>> \/ s[1] # "." THEN [ok |-> TRUE, v |-> 0, rest |-> s]
    ELSE LET n   == DigitRun(Tail(s), 9)
             all == DigitRun(Tail(s), Len(s))
             ds  == DigitsOf(Take(Tail(s), n)) \o [i \in 1..(9 - n) |-> 0]
         IN  IF n < 1 THEN NoScan
             ELSE [ok |-> TRUE, v |-> NatOf(ds), rest |-> Drop(Tail(s), all)]

\* Parsed::to_datetime: the local date and time, less the offset, which must
\* be within a day.
DateTimeOf(d, t, nano, offset) ==
    IF ~d.ok \/ ~t.ok \/ offset <= 0 - SECS_PER_DAY \/ offset >= SECS_PER_DAY
    THEN ResErr
    ELSE ResOk(ShiftSecs(Inst(d.days, t.sod, t.nano + nano), 0 - offset))

to_datetime(p, nano, offset) ==
    DateTimeOf(to_naive_date(p), to_naive_time(p), nano, offset)

\* The scan result r taken as the offset from UTC.
CSetOffset(c, r) ==
    IF c.ok /\ r.ok THEN [c EXCEPT !.off = Some(r.v), !.rest = r.rest] ELSE Fail(c)

\* The scan result r taken as the fraction of the second.
CSetNano(c, r) ==
    IF c.ok /\ r.ok THEN [c EXCEPT !.nano = r.v, !.rest = r.rest] ELSE Fail(c)

\* "T" or "t" between date and time.
CLitT(c) ==
    IF c.ok /\ c.rest # <<>> /\ c.rest[1] \in {"T", "t"} THEN [c EXCEPT !.rest = Tail(c.rest)]
    ELSE Fail(c)

\* scan::timezone_offset_zulu: "Z", "z" or a numeric offset with a colon.
ScanOffsetZ(s) ==
    IF s # <<>> /\ s[1] \in {"Z", "z"} THEN [ok |-> TRUE, v |-> 0, rest |-> Tail(s)]
    ELSE ScanOffset(s, TRUE)

\* The end of an RFC parse: no input left and a known offset.
Finish(c) ==
    IF ~c.ok \/ c.rest # <<>> \/ c.off = None THEN ResErr
    ELSE to_datetime(c.p, c.nano, c.off[1])

Rfc3339Time(c) == ParseItems(CLitT(c), <<"%H", ":", "%M", ":", "%S">>)

Rfc3339Tail(c) == CSetOffset(c, ScanOffsetZ(c.rest))

Rfc3339Frac(c) == CSetNano(c, ScanNanosecond(c.rest))

parse_from_rfc3339(s) ==
    Finish(Rfc3339Tail(Rfc3339Frac(Rfc3339Time(
        ParseItems(Cursor(s), <<"%Y", "-", "%m", "-", "%d">>)))))

Letters ==
    {"A", "B", "C", "D", "E", "F", "G", "H", "I", "J", "K", "L", "M", "N", "O",
     "P", "Q", "R", "S", "T", "U", "V", "W", "X", "Y", "Z", "a", "b", "c", "d",
     "e", "f", "g", "h", "i", "j", "k", "l", "m", "n", "o", "p", "q", "r", "s",
     "t", "u", "v", "w", "x", "y", "z"}

\* Names are matched as written here; the code also accepts other letter case.
WeekdayNames ==
    << <<"M", "o", "n">>, <<"T", "u", "e">>, <<"W", "e", "d">>, <<"T", "h", "u">>,
       <<"F", "r", "i">>, <<"S", "a", "t">>, <<"S", "u", "n">> >>

MonthNames ==
    << <<"J", "a", "n">>, <<"F", "e", "b">>, <<"M", "a", "r">>, <<"A", "p", "r">>,
       <<"M", "a", "y">>, <<"J", "u", "n">>, <<"J", "u", "l">>, <<"A", "u", "g">>,
       <<"S", "e", "p">>, <<"O", "c", "t">>, <<"N", "o", "v">>, <<"D", "e", "c">> >>

\* The legacy zone names of RFC 2822 with their offsets in hours.
ZoneNames ==
    << <<"G", "M", "T">>, <<"U", "T">>, <<"E", "D", "T">>, <<"E", "S", "T">>,
       <<"C", "D", "T">>, <<"C", "S", "T">>, <<"M", "D", "T">>, <<"M", "S", "T">>,
       <<"P", "D", "T">>, <<"P", "S", "T">> >>

ZoneHours == <<0, 0, -4, -5, -5, -6, -6, -7, -7, -8>>

\* scan::short_weekday, scan::short_month0 (from is 0), and the month number
\* (from is 1): the index of the name at the head of s, counted from `from`.
ScanName(s, names, from) ==
    IF Len(s) >= 3 /\ \E i \in 1..Len(names) : names[i] = Take(s, 3)
    THEN [ok |-> TRUE,
          v |-> (CHOOSE i \in 1..Len(names) : names[i] = Take(s, 3)) - 1 + from,
          rest |-> Drop(s, 3)]
    ELSE NoScan

\* str::trim_left
CTrim(c) == [c EXCEPT !.rest = TrimLeft(c.rest)]

\* scan::space: at least one blank, all of them skipped.
CSpace(c) == CTrim(CChar(c, " "))

RECURSIVE AlphaRun(_)
AlphaRun(s) == IF s # <<>> /\ s[1] \in Letters THEN 1 + AlphaRun(Tail(s)) ELSE 0

\* The year of RFC 2822, n digits of value y: two or more digits; two digits are
\* 2000-2049 or 1950-1999 and three digits count from 1900.
Year2822(s, n, ds) ==
    IF n < 2 \/ Len(ds) > 9 THEN NoScan
    ELSE [ok |-> TRUE,
          v |-> IF n = 2 /\ NatOf(ds) <= 49 THEN NatOf(ds) + 2000
                ELSE IF n = 2 \/ n = 3 THEN NatOf(ds) + 1900
                ELSE NatOf(ds),
          rest |-> Drop(s, n)]

ScanYear2822(s) ==
    Year2822(s, DigitRun(s, Len(s)), StripZeros(DigitsOf(Take(s, DigitRun(s, Len(s))))))

\* A legacy zone name: its offset when listed, otherwise no known offset.
ZoneOfName(name) ==
    IF \E i \in 1..Len(ZoneNames) : ZoneNames[i] = name
    THEN Some(ZoneHours[CHOOSE i \in 1..Len(ZoneNames) : ZoneNames[i] = name] * 3600)
    ELSE None

\* scan::timezone_offset_2822: a legacy name or a numeric offset without a
\* colon; "-0000" and an unlisted name leave the offset unknown.
CZoneNumeric(c, r) ==
    IF ~c.ok \/ ~r.ok THEN Fail(c)
    ELSE [c EXCEPT !.off = IF r.v = 0 /\ c.rest[1] = "-" THEN None ELSE Some(r.v),
                   !.rest = r.rest]

CZone2822(c) ==
    IF c.ok /\ AlphaRun(c.rest) > 0
    THEN [c EXCEPT !.off = ZoneOfName(Take(c.rest, AlphaRun(c.rest))),
                   !.rest = Drop(c.rest, AlphaRun(c.rest))]
    ELSE CZoneNumeric(c, ScanOffset(c.rest, FALSE))

\* An optional weekday name, which a comma must follow.
CWeekdayName(c, r) ==
    IF ~r.ok THEN c
    ELSE IF r.rest # <<>> /\ r.rest[1] = "," THEN [c EXCEPT !.wd = Some(r.v), !.rest = Tail(r.rest)]
    ELSE Fail(c)

CWeekday(c) == CWeekdayName(CTrim(c), ScanName(TrimLeft(c.rest), WeekdayNames, 0))

\* [ ":" 2DIGIT ] for the seconds.
CSecondAfter(c, colon) ==
    IF ~colon.ok THEN c ELSE CSet(colon, "%S", ScanFixed(colon.rest, 2))

CSecondOpt(c) == CSecondAfter(c, CChar(CTrim(c), ":"))

Rfc2822Date(c) ==
    CSet(CSpace(c), "%m", ScanName(CSpace(c).rest, MonthNames, 1))

Rfc2822Year(c) == CSet(CSpace(c), "%Y", ScanYear2822(CSpace(c).rest))

Rfc2822Hour(c) == CSet(CSpace(c), "%H", ScanFixed(CSpace(c).rest, 2))

Rfc2822Colon(c) == CTrim(CChar(CTrim(c), ":"))

Rfc2822Minute(c) == CSet(Rfc2822Colon(c), "%M", ScanFixed(Rfc2822Colon(c).rest, 2))

\* Weekday of a day counted from the epoch, Monday = 0 (1970-01-01: Thursday).
WeekdayOf(days) == (days + 3) % 7

\* Parsed::to_naive_date refuses a weekday that is not the date's.
WeekdayChecked(c, d) ==
    IF c.ok /\ c.wd # None /\ d.ok /\ WeekdayOf(d.days) # c.wd[1] THEN Fail(c) ELSE c

Finish2822(c) == Finish(WeekdayChecked(c, to_naive_date(c.p)))

parse_from_rfc2822(s) ==
    Finish2822(CZone2822(CSpace(CSecondOpt(Rfc2822Minute(Rfc2822Hour(Rfc2822Year(
        Rfc2822Date(CItem(CWeekday(Cursor(s)), "%d")))))))))

(***************************************************************************)
(* parse (main.rs 75-105): the cascade of strategies                       *)
(***************************************************************************)
NumStrategies == 11

\* Variant: the integer strategy first and the year strategy tenth.
Strategy_IntegerFirst(i, s) ==
    CASE i = 1 -> parse_i64(s)
      [] i = 2 -> parse_dt_str(<<"%Y", "%m">>, s)
      [] i = 3 -> parse_dt_str(<<"%Y", "%m", "%d">>, s)
      [] i = 4 -> parse_dt_str(<<"%Y", "%m", "%d", "%H">>, s)
      [] i = 5 -> parse_dt_str(<<"%Y", "%m", "%d", "%H", "%M">>, s)
      [] i = 6 -> parse_from_rfc2822(s)
      [] i = 7 -> parse_from_rfc3339(s)
      [] i = 8 -> parse_dt_str(<<"%Y", "-", "%m", "-", "%d", "T", "%H", ":", "%M", ":", "%S">>, s)
      [] i = 9 -> parse_dt_str(<<"%Y", "-", "%m", "-", "%d", "T", "%H", ":", "%M">>, s)
      [] i = 10 -> parse_dt_str(<<"%Y">>, s)
      [] i = 11 -> parse_f64(s)

\* The closure at position i of the array of lines 77-97, applied to s.
Strategy(i, s) ==
    CASE i = 1 -> parse_dt_str(<<"%Y">>, s)
      [] i = 2 -> parse_dt_str(<<"%Y", "%m">>, s)
      [] i = 3 -> parse_dt_str(<<"%Y", "%m", "%d">>, s)
      [] i = 4 -> parse_dt_str(<<"%Y", "%m", "%d", "%H">>, s)
      [] i = 5 -> parse_dt_str(<<"%Y", "%m", "%d", "%H", "%M">>, s)
      [] i = 6 -> parse_from_rfc2822(s)
      [] i = 7 -> parse_from_rfc3339(s)
      [] i = 8 -> parse_dt_str(<<"%Y", "-", "%m", "-", "%d", "T", "%H", ":", "%M", ":", "%S">>, s)
      [] i = 9 -> parse_dt_str(<<"%Y", "-", "%m", "-", "%d", "T", "%H", ":", "%M">>, s)
      [] i = 10 -> parse_i64(s)
      [] i = 11 -> parse_f64(s)

(***************************************************************************)
(* The inputs of the model: command-line arguments and clock values        *)
(***************************************************************************)
Chars(ds) == [i \in 1..Len(ds) |-> DigitChar(ds[i])]

Pad2(n) == <<DigitChar(n \div 10), DigitChar(n % 10)>>

Pad4(n) == Pad2(n \div 100) \o Pad2(n % 100)

\* The decimal string of an integer.
DecStr(d) ==
    IF d.mag = <<>> THEN <<"0">>
    ELSE (IF d.neg THEN <<"-">> ELSE <<>>) \o Chars(d.mag)

RECURSIVE MagDec(_)
MagDec(ds) ==
    IF ds[Len(ds)] > 0 THEN StripZeros([ds EXCEPT ![Len(ds)] = ds[Len(ds)] - 1])
    ELSE Append(MagDec(Take(ds, Len(ds) - 1)), 9)

\* d + k for a small k.
RECURSIVE DecAdd(_, _)
DecAdd(d, k) ==
    IF k = 0 THEN d
    ELSE IF k > 0 THEN
        DecAdd(IF d.neg THEN Dec(TRUE, MagDec(d.mag)) ELSE Dec(FALSE, MagInc(d.mag)), k - 1)
    ELSE
        DecAdd(IF d.neg \/ d.mag = <<>> THEN Dec(TRUE, MagInc(d.mag))
               ELSE Dec(FALSE, MagDec(d.mag)), k + 1)

\* Integers are drawn within Near of each landmark.
Near == 2

\* Every string over ShortAlphabet of at most MaxShortLen characters is drawn.
MaxShortLen == 2

Years == {1899, 1900, 1901, 1970, 2023, 2024, 2499, 2500}

Months == {1, 2, 7, 13}

Days == {1, 15, 29, 32}

Hours == {0, 10, 24}

Minutes == {0, 30, 60}

\* Digit strings YYYY, YYYYMM, YYYYMMDD, YYYYMMDDHH, YYYYMMDDHHMM, and YYYYM.
CalendarInputs ==
    {Pad4(y) : y \in Years}
    \cup {Pad4(y) \o Pad2(m) : y \in Years, m \in Months}
    \cup {Pad4(y) \o <<DigitChar(m)>> : y \in Years, m \in {1, 7}}
    \cup {Pad4(y) \o Pad2(m) \o Pad2(d) : y \in Years, m \in Months, d \in Days}
    \cup {Pad4(y) \o Pad2(m) \o Pad2(d) \o Pad2(h) :
            y \in Years, m \in Months, d \in Days, h \in Hours}
    \cup {Pad4(y) \o Pad2(m) \o Pad2(d) \o Pad2(h) \o Pad2(mi) :
            y \in Years, m \in Months, d \in Days, h \in Hours, mi \in Minutes}

Landmarks ==
    {Dec(FALSE, <<>>), LOWER_BOUND, UPPER_BOUND,
     DecMul1000(LOWER_BOUND), DecMul1000(UPPER_BOUND),
     Dec(FALSE, <<1, 8, 0, 0>>),
     Dec(FALSE, <<1, 6, 8, 8, 0, 0, 0, 0, 0, 0>>),
     Dec(FALSE, <<1, 6, 8, 8, 0, 0, 0, 0, 0, 0, 5, 0, 0>>),
     Dec(TRUE, <<3, 0, 0, 0, 0, 0, 0, 0, 0, 0, 0, 0>>),
     Dec(FALSE, <<1, 0, 0, 0, 0, 0, 0, 0, 0, 0, 0, 0, 0, 0, 0, 0, 0>>),
     I64_MAX, I64_MIN}

IntegerInputs == {DecStr(DecAdd(l, k)) : l \in Landmarks, k \in (0 - Near)..Near}

Fractions ==
    {<<".">>, <<".", "0">>, <<".", "5">>, <<".", "2", "5">>, <<".", "9", "9", "9">>,
     <<".", "0", "0", "0", "4">>, <<".", "9", "9", "9", "6">>}

FloatInputs ==
    {DecStr(l) \o f :
        l \in {Dec(FALSE, <<>>), Dec(TRUE, <<1>>), Dec(FALSE, <<2, 0, 2, 3>>),
               Dec(FALSE, <<1, 6, 8, 8, 0, 0, 0, 0, 0, 0>>),
               Dec(TRUE, <<1, 6, 8, 8, 0, 0, 0, 0, 0, 0>>),
               LOWER_BOUND, DecAdd(LOWER_BOUND, 1), UPPER_BOUND, DecAdd(UPPER_BOUND, -1),
               Dec(FALSE, <<1, 6, 8, 8, 0, 0, 0, 0, 0, 0, 5, 0, 0>>),
               Dec(TRUE, <<3, 0, 0, 0, 0, 0, 0, 0, 0, 0, 0, 0>>),
               DecAdd(I64_MAX, 1)},
        f \in Fractions}

ShortAlphabet == {"0", "1", "9", "-", "+", ".", " ", "T", ":", "x"}

ShortInputs == UNION {[1..n -> ShortAlphabet] : n \in 0..MaxShortLen}

TextInputs ==
    {<<"2", "0", "2", "3", "-", "0", "7", "-", "1", "5", "T", "1", "0", ":", "0", "0", ":", "0", "0">>,
     <<"2", "0", "2", "3", "-", "0", "7", "-", "1", "5", "T", "1", "0", ":", "0", "0">>,
     <<"2", "0", "2", "3", "-", "0", "7", "-", "1", "5", "T", "1", "0", ":", "3", "0", ":", "0", "0", "Z">>,
     <<"2", "0", "2", "3", "-", "0", "7", "-", "1", "5", "T", "1", "0", ":", "0", "0", ":", "0", "0", "+", "0", "2", ":", "0", "0">>,
     <<"2", "0", "2", "3", "-", "0", "7", "-", "1", "5", "T", "1", "0", ":", "3", "0", ":", "0", "0", ".", "5", "Z">>,
     <<"2", "0", "2", "3", "-", "0", "7", "-", "1", "5", "T", "1", "0", ":", "0", "0", ":", "6", "0">>,
     <<"2", "0", "2", "3", "-", "0", "7", "-", "1", "5", "T", "1", "0", ":", "0", "0", ":", "6", "1">>,
     <<"2", "0", "2", "3", "-", "0", "2", "-", "2", "9", "T", "1", "0", ":", "0", "0", ":", "0", "0">>,
     <<"2", "0", "2", "4", "-", "0", "2", "-", "2", "9", "T", "1", "0", ":", "0", "0", ":", "0", "0">>,
     <<"2", "6", "0", "0", "-", "0", "1", "-", "0", "1", "T", "0", "0", ":", "0", "0", ":", "0", "0", "Z">>,
     <<"1", "8", "0", "0", "-", "0", "1", "-", "0", "1", "T", "0", "0", ":", "0", "0", ":", "0", "0", "Z">>,
     <<"2", "6", "0", "0", "-", "0", "1", "-", "0", "1", "T", "0", "0", ":", "0", "0", ":", "0", "0">>,
     <<"1", "9", "0", "0", "-", "0", "1", "-", "0", "1", "T", "0", "0", ":", "0", "0", ":", "0", "0">>,
     <<"1", "9", "0", "0", "-", "0", "1", "-", "0", "1", "T", "0", "0", ":", "0", "0", ":", "0", "1">>,
     <<"2", "4", "9", "9", "-", "1", "2", "-", "3", "1", "T", "2", "3", ":", "5", "9", ":", "5", "9">>,
     <<"2", "5", "0", "0", "-", "0", "1", "-", "0", "1", "T", "0", "0", ":", "0", "0">>,
     <<"2", "0", "2", "3", "-", "0", "7", "-", "1", "5", "T", "2", "3", ":", "5", "9", ":", "6", "0", "Z">>,
     <<"2", "0", "2", "3", "-", "0", "7", "-", "1", "5", "T", "1", "0", ":", "0", "0", ":", "0", "0", "-", "2", "4", ":", "0", "0">>,
     <<"2", "0", "2", "3", "-", "0", "7", "-", "1", "5", " ", "1", "0", ":", "0", "0", ":", "0", "0">>,
     <<"2", "0", "2", "3", "-", "0", "7", "-", "1", "5", "T", "1", "0", ":", "0", "0", ":", "0", "0", " ">>,
     <<"+", "2", "0", "2", "3", "-", "0", "7", "-", "1", "5", "T", "1", "0", ":", "0", "0">>,
     <<"T", "u", "e", ",", " ", "1", " ", "J", "u", "l", " ", "2", "0", "0", "3", " ", "1", "0", ":", "5", "2", ":", "3", "7", " ", "+", "0", "2", "0", "0">>,
     <<"1", " ", "J", "u", "l", " ", "2", "0", "0", "3", " ", "1", "0", ":", "5", "2", ":", "3", "7", " ", "+", "0", "2", "0", "0">>,
     <<"W", "e", "d", ",", " ", "1", " ", "J", "u", "l", " ", "2", "0", "0", "3", " ", "1", "0", ":", "5", "2", ":", "3", "7", " ", "+", "0", "2", "0", "0">>,
     <<"T", "u", "e", ",", " ", "1", " ", "J", "u", "l", " ", "2", "0", "0", "3", " ", "1", "0", ":", "5", "2", " ", "G", "M", "T">>,
     <<"T", "u", "e", ",", " ", "1", " ", "J", "u", "l", " ", "2", "0", "0", "3", " ", "1", "0", ":", "5", "2", ":", "3", "7", " ", "-", "0", "0", "0", "0">>,
     <<"T", "u", "e", ",", " ", "1", " ", "J", "u", "l", " ", "0", "3", " ", "1", "0", ":", "5", "2", ":", "3", "7", " ", "E", "S", "T">>,
     <<"1", " ", "J", "a", "n", " ", "2", "6", "0", "0", " ", "0", "0", ":", "0", "0", ":", "0", "0", " ", "+", "0", "0", "0", "0">>,
     <<"1", " ", "J", "a", "n", " ", "1", "8", "0", "0", " ", "0", "0", ":", "0", "0", ":", "0", "0", " ", "+", "0", "0", "0", "0">>,
     <<"T", "u", "e", " ", "1", " ", "J", "u", "l", " ", "2", "0", "0", "3", " ", "1", "0", ":", "5", "2", ":", "3", "7", " ", "+", "0", "2", "0", "0">>,
     <<"n", "o", "t", "-", "a", "-", "d", "a", "t", "e">>,
     <<"+", "2", "0", "2", "3">>,
     <<"-", "2", "0", "2", "3">>,
     <<" ", "2", "0", "2", "3">>,
     <<"2", "0", "2", "3", " ", "7">>,
     <<"+", "2", "0", "2", "3", "0", "7">>,
     <<"+", "2", "0", "2", "3", "0", "7", "1", "5">>,
     <<"0", "0", "0", "2", "0", "2", "3">>,
     <<"1", "2", ":", "3", "0">>}

Inputs == CalendarInputs \cup IntegerInputs \cup FloatInputs \cup ShortInputs \cup TextInputs

\* 2023-07-15T10:30:00Z, and half a second later.
NowSet ==
    {Inst(DaysFromCivil(2023, 7, 15), 37800, 0),
     Inst(DaysFromCivil(2023, 7, 15), 37800, 500000000)}

(***************************************************************************)
(* main (main.rs 107-174)                                                  *)
(*                                                                         *)
(* pc is the position in main; stdout and stderr hold the labels of the    *)
(* lines written so far ("" is an empty line); exit is the exit status of  *)
(* the process, RUNNING until it ends.                                     *)
(***************************************************************************)
RUNNING == -1

EXIT_OK == 0

\* The exit status of a Rust process whose main thread panicked.
EXIT_PANIC == 101

Init ==
    /\ pc = "start"
    /\ arg \in {None} \cup {Some(s) : s \in Inputs}
    /\ now = NoInst
    /\ idx = 0
    /\ parsed = ResErr
    /\ utc_ts = NoInst
    /\ stdout = <<>>
    /\ stderr = <<>>
    /\ exit = RUNNING

\* let now = Utc::now();
ReadClock ==
    /\ pc = "start"
    /\ now' \in NowSet
    /\ pc' = "match"
    /\ UNCHANGED <<arg, idx, parsed, utc_ts, stdout, stderr, exit>>

\* None => now
MatchNone ==
    /\ pc = "match"
    /\ arg = None
    /\ utc_ts' = now
    /\ pc' = "unix"
    /\ UNCHANGED <<arg, now, idx, parsed, stdout, stderr, exit>>

\* Some(s) => match parse(s): the cascade starts at its first strategy.
MatchSome ==
    /\ pc = "match"
    /\ arg # None
    /\ idx' = 1
    /\ pc' = "parse"
    /\ UNCHANGED <<arg, now, parsed, utc_ts, stdout, stderr, exit>>

\* if let Ok(t) = p(s) { return Ok(t); }
StrategyOk ==
    /\ pc = "parse"
    /\ idx <= NumStrategies
    /\ Strategy(idx, arg[1]).tag = "Ok"
    /\ parsed' = Strategy(idx, arg[1])
    /\ pc' = "parsed"
    /\ UNCHANGED <<arg, now, idx, utc_ts, stdout, stderr, exit>>

\* p(s) is Err: the loop goes on to the next strategy.
StrategyErr ==
    /\ pc = "parse"
    /\ idx <= NumStrategies
    /\ Strategy(idx, arg[1]).tag = "Err"
    /\ idx' = idx + 1
    /\ UNCHANGED <<pc, arg, now, parsed, utc_ts, stdout, stderr, exit>>

\* p(s) panics: the process aborts with the panic message on stderr.
StrategyPanic ==
    /\ pc = "parse"
    /\ idx <= NumStrategies
    /\ Strategy(idx, arg[1]).tag = "Panic"
    /\ stderr' = Append(stderr, "panicked")
    /\ exit' = EXIT_PANIC
    /\ pc' = "done"
    /\ UNCHANGED <<arg, now, idx, parsed, utc_ts, stdout>>

\* Err(()) after the loop
ParseErr ==
    /\ pc = "parse"
    /\ idx > NumStrategies
    /\ parsed' = ResErr
    /\ pc' = "parsed"
    /\ UNCHANGED <<arg, now, idx, utc_ts, stdout, stderr, exit>>

\* Ok(ts) => ts
MainOk ==
    /\ pc = "parsed"
    /\ parsed.tag = "Ok"
    /\ utc_ts' = parsed.t
    /\ pc' = "unix"
    /\ UNCHANGED <<arg, now, idx, parsed, stdout, stderr, exit>>

\* Err(()) => { eprintln!(..); eprintln!(usage); return; }
MainErr ==
    /\ pc = "parsed"
    /\ parsed.tag = "Err"
    /\ stderr' = stderr \o <<"Unable to parse timestamp", "USAGE:">>
    /\ exit' = EXIT_OK
    /\ pc' = "done"
    /\ UNCHANGED <<arg, now, idx, parsed, utc_ts, stdout>>

\* Lines 134-141.
PrintUnix ==
    /\ pc = "unix"
    /\ stdout' = stdout \o <<"Unix time:", "Unix time (float):", "Unix time (ms):", "">>
    /\ pc' = "delta"
    /\ UNCHANGED <<arg, now, idx, parsed, utc_ts, stderr, exit>>

\* b - a for DateTime values a < b: a Duration, as whole days, the seconds
\* left over and the nanoseconds left over.
Elapsed(a, b) ==
    LET n  == b.nano - a.nano
        sc == b.sod - a.sod - (IF n < 0 THEN 1 ELSE 0)
        dy == b.day - a.day - (IF sc < 0 THEN 1 ELSE 0)
    IN  [days |-> dy,
         secs |-> IF sc < 0 THEN sc + SECS_PER_DAY ELSE sc,
         nanos |-> IF n < 0 THEN n + 1000000000 ELSE n]

\* Variant: the hours of the last partial day only.
num_hours_WithinDay(d) == d.secs \div 3600

\* Duration::num_hours
num_hours(d) == d.days * 24 + d.secs \div 3600

\* Duration::num_days
num_days(d) == d.days

\* The lines of one relative block (lines 145-152, 155-162) for the duration d.
DeltaLines(d, word) ==
    <<"Seconds " \o word>>
    \o (IF num_hours(d) > 0 THEN <<"Hours " \o word>> ELSE <<>>)
    \o (IF num_days(d) > 0 THEN <<"Days " \o word>> ELSE <<>>)
    \o <<"">>

\* if utc_ts < now { .. }
PrintSince ==
    /\ pc = "delta"
    /\ InstLess(utc_ts, now)
    /\ stdout' = stdout \o DeltaLines(Elapsed(utc_ts, now), "since")
    /\ pc' = "utc"
    /\ UNCHANGED <<arg, now, idx, parsed, utc_ts, stderr, exit>>

\* else if utc_ts > now { .. }
PrintUntil ==
    /\ pc = "delta"
    /\ ~InstLess(utc_ts, now)
    /\ InstLess(now, utc_ts)
    /\ stdout' = stdout \o DeltaLines(Elapsed(now, utc_ts), "until")
    /\ pc' = "utc"
    /\ UNCHANGED <<arg, now, idx, parsed, utc_ts, stderr, exit>>

\* Variant: the closing blank line written outside the two branches.
PrintNoDelta_Blank ==
    /\ pc = "delta"
    /\ ~InstLess(utc_ts, now)
    /\ ~InstLess(now, utc_ts)
    /\ stdout' = stdout \o <<"">>
    /\ pc' = "utc"
    /\ UNCHANGED <<arg, now, idx, parsed, utc_ts, stderr, exit>>

\* Neither branch of lines 143-163 is taken.
PrintNoDelta ==
    /\ pc = "delta"
    /\ ~InstLess(utc_ts, now)
    /\ ~InstLess(now, utc_ts)
    /\ pc' = "utc"
    /\ UNCHANGED <<arg, now, idx, parsed, utc_ts, stdout, stderr, exit>>

\* Lines 165-169.
PrintUtc ==
    /\ pc = "utc"
    /\ stdout' = stdout \o <<"RFC2822 UTC:", "RFC3339 UTC:", "YMD UTC:", "YMDH UTC:", "">>
    /\ pc' = "local"
    /\ UNCHANGED <<arg, now, idx, parsed, utc_ts, stderr, exit>>

\* Lines 171-173, and main returns.
PrintLocal ==
    /\ pc = "local"
    /\ stdout' = stdout \o <<"RFC2822 Local:", "RFC3339 Local:">>
    /\ exit' = EXIT_OK
    /\ pc' = "done"
    /\ UNCHANGED <<arg, now, idx, parsed, utc_ts, stderr>>

Next ==
    \/ ReadClock
    \/ MatchNone
    \/ MatchSome
    \/ StrategyOk
    \/ StrategyErr
    \/ StrategyPanic
    \/ ParseErr
    \/ MainOk
    \/ MainErr
    \/ PrintUnix
    \/ PrintSince
    \/ PrintUntil
    \/ PrintNoDelta
    \/ PrintUtc
    \/ PrintLocal

Spec == Init /\ [][Next]_vars

(***************************************************************************)
(* Properties                                                              *)
(***************************************************************************)
\* parse has been called and has ended, by returning or by a panic.
Returned == arg # None /\ pc \in {"parsed", "unix", "delta", "utc", "local", "done"}

\* The integer days * 86400 + sod, for |days| below 2,000,000.
SecondsDec(days, sod) ==
    IF days >= 0
    THEN Dec(FALSE, DigitsOfNat(days * 864 + sod \div 100) \o <<(sod % 100) \div 10, sod % 10>>)
    ELSE LET c == (sod + 99) \div 100
             r == c * 100 - sod
         IN  Dec(TRUE, DigitsOfNat((0 - days) * 864 - c) \o <<r \div 10, r % 10>>)

\* Whole seconds since the epoch of an instant, as an integer.
EpochSeconds(t) == SecondsDec(timestamp(t)[1], timestamp(t)[2])

Pad3(n) == <<n \div 100, (n % 100) \div 10, n % 10>>

\* Milliseconds since the epoch of an instant, as an integer.
EpochMillis(t) ==
    LET p  == timestamp_millis(t)
        sc == SecondsDec(p[1], p[2] \div 1000)
        ms == p[2] % 1000
    IN  IF ~sc.neg \/ ms = 0 THEN Dec(sc.neg, sc.mag \o Pad3(ms))
        ELSE Dec(TRUE, MagDec(sc.mag) \o Pad3(1000 - ms))

\* The argument is the decimal string of an i64.
ArgInt ==
    arg # None /\ FromStrI64(arg[1]).ok /\ DecStr(FromStrI64(arg[1]).v) = arg[1]

ArgVal == FromStrI64(arg[1]).v

\* One of the calendar strategies 1-5 accepts s.
CalendarAccepts(s) == \E i \in 1..5 : Strategy(i, s).tag = "Ok"

\* C1 as stated: for every integer s with LOWER_BOUND < s < UPPER_BOUND, parse
\* of the decimal string of s yields the instant s whole seconds after the
\* epoch with no sub-second part, calendar-like strings included.
C1_Original ==
    (Returned /\ ArgInt /\ SecondsRange(ArgVal))
        => /\ parsed.tag = "Ok"
           /\ EpochSeconds(parsed.t) = ArgVal
           /\ parsed.t.nano = 0

\* C1 amended: for every integer s with LOWER_BOUND < s < UPPER_BOUND whose
\* decimal string none of the calendar strategies 1-5 accepts, parse yields
\* the instant s whole seconds after the epoch with no sub-second part.
C1_SecondsUnlessCalendar ==
    (Returned /\ ArgInt /\ SecondsRange(ArgVal) /\ ~CalendarAccepts(arg[1]))
        => /\ exit # EXIT_PANIC
           /\ parsed.tag = "Ok"
           /\ EpochSeconds(parsed.t) = ArgVal
           /\ parsed.t.nano = 0

\* A ten-digit string that is no calendar form has been resolved as seconds.
C1_Witness ==
    /\ pc = "parsed" /\ ArgInt /\ SecondsRange(ArgVal)
    /\ Len(arg[1]) = 10 /\ ~CalendarAccepts(arg[1])
    /\ parsed.tag = "Ok"

\* C2 as stated: for every i64 m with m <= LOWER_BOUND or m >= UPPER_BOUND, parse
\* of the decimal string of m yields the instant whose epoch-millisecond value
\* is m.
C2_Original ==
    (Returned /\ ArgInt /\ ~SecondsRange(ArgVal))
        => /\ exit # EXIT_PANIC
           /\ parsed.tag = "Ok"
           /\ EpochMillis(parsed.t) = ArgVal

FirstDay == DaysFromCivil(1900, 1, 1)

EndDay == DaysFromCivil(2500, 1, 1)

\* Strictly after 1900-01-01T00:00:00Z and strictly before 2500-01-01T00:00:00Z.
StrictlyInside(t) ==
    /\ t.day >= FirstDay
    /\ t.day > FirstDay \/ t.sod > 0
    /\ t.day < EndDay

\* C3 as stated: every instant parse returns, whichever strategy produced it,
\* lies strictly between LOWER_BOUND and UPPER_BOUND.
C3_Original == parsed.tag = "Ok" => StrictlyInside(parsed.t)

\* The strategies built by parse_dt_str: positions 1-5, 8 and 9.
DtStrStrategies == {1, 2, 3, 4, 5, 8, 9}

\* C3 amended: every instant parse returns from one of the calendar and
\* ISO-like strategies (1-5, 8, 9) lies strictly between LOWER_BOUND and
\* UPPER_BOUND; the RFC and the numeric strategies are not range-checked.
C3_DtStrInBounds ==
    (pc = "parsed" /\ parsed.tag = "Ok" /\ idx \in DtStrStrategies)
        => StrictlyInside(parsed.t)

\* A calendar strategy has returned an instant of the last year inside the
\* bounds.
C3_Witness ==
    /\ pc = "parsed" /\ parsed.tag = "Ok" /\ idx \in DtStrStrategies
    /\ parsed.t.day >= DaysFromCivil(2499, 1, 1)

\* The argument reads as an i64 or an f64 that is not strictly between the
\* bounds.
ArgNumericOutside ==
    /\ arg # None
    /\ \/ FromStrI64(arg[1]).ok /\ ~SecondsRange(FromStrI64(arg[1]).v)
       \/ FromStrF64(arg[1]).ok /\ ~SecondsRangeF(FromStrF64(arg[1]))

\* C4 as stated: parse never aborts, and every string that reads as an i64 or
\* f64 not strictly between the bounds resolves to an instant.
C4_Original ==
    /\ exit # EXIT_PANIC
    /\ (Returned /\ ArgNumericOutside) => parsed.tag = "Ok"

\* The fields of a digit string YYYY[MM[DD[HH[MM]]]], absent ones defaulted.
FieldAt(s, k, default) ==
    IF Len(s) >= k + 1 THEN NatOf(DigitsOf(SubSeq(s, k, k + 1))) ELSE default

ArgCalendarForm ==
    arg # None /\ Len(arg[1]) \in {4, 6, 8, 10, 12} /\ AllDigits(arg[1])

ArgYear == NatOf(DigitsOf(SubSeq(arg[1], 1, 4)))

ArgMonth == FieldAt(arg[1], 5, 1)

ArgDay == FieldAt(arg[1], 7, 1)

ArgHour == FieldAt(arg[1], 9, 0)

ArgMinute == FieldAt(arg[1], 11, 0)

\* The UTC instant of the argument's fields.
ArgCalendarInstant ==
    Inst(DaysFromCivil(ArgYear, ArgMonth, ArgDay), ArgHour * 3600 + ArgMinute * 60, 0)

ArgCalendarValid ==
    /\ ArgCalendarForm
    /\ ArgMonth \in 1..12 /\ ArgDay \in 1..DaysInMonth(ArgYear, ArgMonth)
    /\ ArgHour \in 0..23 /\ ArgMinute \in 0..59
    /\ StrictlyInside(ArgCalendarInstant)

\* C5: a digit string YYYY, YYYYMM, YYYYMMDD, YYYYMMDDHH or YYYYMMDDHHMM with
\* valid fields and an instant strictly between the bounds resolves to exactly
\* the UTC instant of its fields, absent fields defaulted to month 1, day 1,
\* hour 0, minute 0, second 0.
C5_CalendarDefaults ==
    (Returned /\ ArgCalendarValid) => parsed = ResOk(ArgCalendarInstant)

\* "202307" has been resolved.
C5_Witness ==
    /\ pc = "parsed" /\ arg = Some(<<"2", "0", "2", "3", "0", "7">>)
    /\ parsed.tag = "Ok"

\* The argument is a decimal with a fraction part, read as an f64 strictly
\* between the bounds.
ArgFraction ==
    /\ arg # None
    /\ FromStrF64(arg[1]).ok
    /\ FromStrF64(arg[1]).frac # <<>>
    /\ SecondsRangeF(FromStrF64(arg[1]))

\* C6 as stated: a decimal string with a fraction part that reads as ts with
\* LOWER_BOUND < ts < UPPER_BOUND resolves to the instant whose epoch-millisecond
\* value is round(ts * 1000).
C6_Original ==
    (Returned /\ ArgFraction)
        => /\ exit # EXIT_PANIC
           /\ parsed.tag = "Ok"
           /\ EpochMillis(parsed.t) = RoundAt(FromStrF64(arg[1]), 3)

\* The run in which parse returned Err(()) has ended.
FailureRun == pc = "done" /\ arg # None /\ idx > NumStrategies

\* C7 as stated: when parse fails, the error line and the usage line go to
\* stderr, nothing goes to stdout, and the exit code is not zero.
C7_Original ==
    FailureRun
        => /\ stderr = <<"Unable to parse timestamp", "USAGE:">>
           /\ stdout = <<>>
           /\ exit # EXIT_OK

\* The lines written between the Unix block and the UTC block, once written.
DeltaBlock == SubSeq(stdout, 5, Len(stdout))

NonBlank(lines) == SelectSeq(lines, LAMBDA l : l # "")

\* The labels C8 expects for an instant a and a later instant b.
ExpectedLabels(a, b, word) ==
    <<"Seconds " \o word>>
    \o (IF ~InstLess(b, ShiftSecs(a, 3600)) THEN <<"Hours " \o word>> ELSE <<>>)
    \o (IF ~InstLess(b, Inst(a.day + 1, a.sod, a.nano)) THEN <<"Days " \o word>> ELSE <<>>)

\* C8: for t < now only "since" labels are printed, for t > now only "until"
\* labels, for t = now (every run without an argument included) neither; a
\* printed block has its Seconds line, then the Hours line exactly when
\* |t - now| is at least an hour, then the Days line exactly when it is at
\* least a day.
C8_RelativeDelta ==
    pc = "utc"
        => /\ InstLess(utc_ts, now)
                => NonBlank(DeltaBlock) = ExpectedLabels(utc_ts, now, "since")
           /\ InstLess(now, utc_ts)
                => NonBlank(DeltaBlock) = ExpectedLabels(now, utc_ts, "until")
           /\ utc_ts = now => DeltaBlock = <<>>
           /\ arg = None => DeltaBlock = <<>>

\* An instant hours but less than a day before now: Seconds and Hours lines.
C8_Witness ==
    /\ pc = "utc" /\ arg # None
    /\ NonBlank(DeltaBlock) = <<"Seconds since", "Hours since">>

UnixLines == <<"Unix time:", "Unix time (float):", "Unix time (ms):">>

UtcLines == <<"RFC2822 UTC:", "RFC3339 UTC:", "YMD UTC:", "YMDH UTC:">>

LocalLines == <<"RFC2822 Local:", "RFC3339 Local:">>

\* The label sequences a since/until block may hold; <<>> is no block.
Blocks ==
    {<<>>}
    \cup {<<"Seconds " \o w>>
            \o (IF h THEN <<"Hours " \o w>> ELSE <<>>)
            \o (IF d THEN <<"Days " \o w>> ELSE <<>>) :
            w \in {"since", "until"}, h \in BOOLEAN, d \in BOOLEAN}

BlankCount(lines) == Len(SelectSeq(lines, LAMBDA l : l = ""))

\* The run has ended after printing its report.
SuccessRun == pc = "done" /\ exit = EXIT_OK /\ (arg = None \/ parsed.tag = "Ok")

\* C9 as stated: every report is the Unix lines, a blank line, the optional
\* since/until block, a blank line, the UTC lines, a blank line, the Local
\* lines: three blank lines whether or not a block was printed.
C9_Original ==
    SuccessRun
        => /\ \E b \in Blocks :
                stdout = UnixLines \o <<"">> \o b \o <<"">> \o UtcLines \o <<"">> \o LocalLines
           /\ BlankCount(stdout) = 3

\* C9 amended: every report is the Unix lines, a blank line, the since/until
\* block followed by a blank line when the instant differs from now and
\* nothing when it equals now, the UTC lines, a blank line, the Local lines:
\* three blank lines with a block, two without.
C9_ReportLayout ==
    SuccessRun
        => /\ \E b \in Blocks :
                /\ stdout = UnixLines \o <<"">> \o (IF b = <<>> THEN <<>> ELSE b \o <<"">>)
                            \o UtcLines \o <<"">> \o LocalLines
                /\ b = <<>> <=> utc_ts = now
           /\ BlankCount(stdout) = IF utc_ts = now THEN 2 ELSE 3

\* A run without an argument has printed its report, with two blank lines.
C9_Witness == SuccessRun /\ arg = None /\ BlankCount(stdout) = 2

\* The order of the strategies as the specification lists it.
ListedStrategy(i, s) ==
    CASE i = 1 -> parse_dt_str(<<"%Y">>, s)
      [] i = 2 -> parse_dt_str(<<"%Y", "%m">>, s)
      [] i = 3 -> parse_dt_str(<<"%Y", "%m", "%d">>, s)
      [] i = 4 -> parse_dt_str(<<"%Y", "%m", "%d", "%H">>, s)
      [] i = 5 -> parse_dt_str(<<"%Y", "%m", "%d", "%H", "%M">>, s)
      [] i = 6 -> parse_from_rfc2822(s)
      [] i = 7 -> parse_from_rfc3339(s)
      [] i = 8 -> parse_dt_str(<<"%Y", "-", "%m", "-", "%d", "T", "%H", ":", "%M", ":", "%S">>, s)
      [] i = 9 -> parse_dt_str(<<"%Y", "-", "%m", "-", "%d", "T", "%H", ":", "%M">>, s)
      [] i = 10 -> parse_i64(s)
      [] i = 11 -> parse_f64(s)

\* C10: parse returns the result of the first strategy, in the listed order,
\* that succeeds, and Err exactly when all eleven fail; a calendar strategy
\* whose instant is outside the bounds counts as failed, so that "1800"
\* reaches the integer strategy and resolves to 1800 seconds after the epoch.
C10_FirstSuccess ==
    pc = "parsed"
        => /\ parsed.tag = "Ok"
                => \E i \in 1..11 :
                     /\ ListedStrategy(i, arg[1]) = parsed
                     /\ \A j \in 1..(i - 1) : ListedStrategy(j, arg[1]).tag = "Err"
           /\ parsed.tag = "Err" <=> \A i \in 1..11 : ListedStrategy(i, arg[1]).tag = "Err"
           /\ arg = Some(<<"1", "8", "0", "0">>) => parsed = ResOk(Inst(0, 1800, 0))

\* "1800" has been resolved by the integer strategy, after the year strategy
\* read it as a year outside the bounds.
C10_Witness ==
    /\ pc = "parsed" /\ arg = Some(<<"1", "8", "0", "0">>)
    /\ idx = 10 /\ parsed.tag = "Ok"

====
